---- MODULE Spec2Model ----
(***************************************************************************)
(* Model of my_logger: the sqlite store (db.py), the capture path          *)
(* (logger.py) and the line extraction helper (utils.py).                  *)
(*                                                                         *)
(* Python values are tagged tuples: <<"none">>, <<"int", n>>,             *)
(* <<"str", s>>, <<"real", n>>, <<"obj">> (a value of a type sqlite3     *)
(* cannot bind), <<"dict", f>> (f a function from keys to values).         *)
(***************************************************************************)
EXTENDS Integers, Sequences, FiniteSets, TLC

\* ------------------------------------------------------------------ bounds
\* number of direct calls of MyDB methods in one run
MaxDbOps == 3
\* number of calls of the wrapper or of log_exception in one run
MaxCalls == 2
\* number of times the test-harness marker is set or cleared in one run
MaxEnvFlips == 1
\* number of application threads a run may use
MaxThreads == 2
\* number of store and command-line operations in one run of the CLI
MaxCliOps == 3
\* lines of a message and frames of a traceback given to the line extraction
MaxLines == 2
MaxFrames == 2

\* ------------------------------------------------------------------ values
None == <<"none">>
IntV(n) == <<"int", n>>
StrV(s) == <<"str", s>>
RealV(n) == <<"real", n>>
Obj == <<"obj">>
Dict(f) == <<"dict", f>>

IsNone(v) == v[1] = "none"
IsInt(v) == v[1] = "int"

\* str(v) for the values that are printed or substituted
PyStr(v) ==
    IF v[1] = "none" THEN "None"
    ELSE IF v[1] = "int" THEN ToString(v[2])
    ELSE IF v[1] = "str" THEN v[2]
    ELSE "<object>"

\* ------------------------------------------------------------------ schema
RequiredCols ==
    {"project_name", "project_version", "file_path", "line", "function",
     "line_code", "exception_type", "exception_value", "message", "module",
     "name", "time"}

OptionalCols ==
    {"level_name", "level_no", "level_icon", "process_id", "process_name",
     "thread_id", "thread_name", "elapsed", "bug_fix_info", "bug_fix_commit",
     "bug_fix_date"}

Columns == {"id"} \cup RequiredCols \cup OptionalCols

\* source lines of the deepest frame of the traceback of a failed primary
\* insert: sqlite3.connect, cursor.execute, conn.commit
ConnectLine == 55
ExecuteLine == 111
CommitLine == 58

\* ------------------------------------------------------- utils.py (lines)
\* A text is a sequence of lines.  <<"file", n>> is a line holding an
\* occurrence of `File "...", line n, in ...`; <<"text", s>> is any other line.
\* A traceback object is the sequence of the line numbers of its frames,
\* outermost first; << >> is "no traceback" (None).
\* <<"files", <<n1, n2, ...>>>> is a line holding several occurrences: the
\* pattern's trailing `in (.*)` runs to the end of the line, so re.findall
\* yields one match per line, for the first occurrence on it.
RECURSIVE FindAll(_)
FindAll(message) ==
    IF message = << >> THEN << >>
    ELSE IF Head(message)[1] = "file"
         THEN <<Head(message)[2]>> \o FindAll(Tail(message))
    ELSE IF Head(message)[1] = "files"
         THEN <<Head(message)[2][1]>> \o FindAll(Tail(message))
         ELSE FindAll(Tail(message))

extract_line_number_from_message_traceback(message, traceback_obj) ==
    LET stack == traceback_obj
        matches == FindAll(message)
    IN  IF stack # << >> THEN IntV(stack[Len(stack)])
        ELSE IF matches # << >> THEN IntV(matches[Len(matches)])
        ELSE None

\* ------------------------------------------------------------- sqlite3
\* An exception is [type, msg]; str(e) is its msg.
Exc(type, msg) == [type |-> type, msg |-> msg]

\* traceback.format_exc() of exception e whose frames are at lines `frames`
FormatExc(e, frames) ==
    <<<<"text", "Traceback (most recent call last):">>>>
    \o [i \in 1..Len(frames) |-> <<"file", frames[i]>>]
    \o <<<<"text", e.type \o ": " \o e.msg>>>>

\* The store: the rows of table logs in insertion order and the AUTOINCREMENT
\* counter kept in sqlite_sequence.
NoRow == [c \in Columns |-> None]
RowOf(d, id) ==
    [c \in Columns |-> IF c = "id" THEN IntV(id)
                       ELSE IF c \in DOMAIN d THEN d[c] ELSE None]
Ids(logs) == {logs[i]["id"][2] : i \in 1..Len(logs)}

SqlOf(d) == <<"INSERT INTO logs", DOMAIN d, Cardinality(DOMAIN d)>>

\* cursor.execute(INSERT ...) inside an open transaction on store db:
\* prepare (column names), bind (value types), step (constraints, rowid).
Execute(db, d) ==
    LET keys == DOMAIN d
        fail(e) == [ok |-> FALSE, err |-> e, db |-> db, id |-> 0]
        explicit == "id" \in keys /\ ~IsNone(d["id"])
        newid == IF explicit THEN d["id"][2] ELSE db.seq + 1
    IN  IF \E k \in keys : k \notin Columns
        THEN fail(Exc("OperationalError", "table logs has no column named "
                       \o (CHOOSE k \in keys : k \notin Columns)))
        ELSE IF \E k \in keys : d[k] = Obj
        THEN fail(Exc("ProgrammingError", "Error binding parameter: type 'object' is not supported"))
        ELSE IF \E c \in RequiredCols : c \notin keys \/ IsNone(d[c])
        THEN fail(Exc("IntegrityError", "NOT NULL constraint failed: logs."
                       \o (CHOOSE c \in RequiredCols : c \notin keys \/ IsNone(d[c]))))
        ELSE IF explicit /\ ~IsInt(d["id"])
        THEN fail(Exc("IntegrityError", "datatype mismatch"))
        ELSE IF explicit /\ newid \in Ids(db.logs)
        THEN fail(Exc("IntegrityError", "UNIQUE constraint failed: logs.id"))
        ELSE [ok |-> TRUE, err |-> Exc("", ""),
              db |-> [logs |-> Append(db.logs, RowOf(d, newid)),
                      seq |-> IF newid > db.seq THEN newid ELSE db.seq],
              id |-> newid]

\* Store-level faults of one use of get_conn: none, sqlite3.connect raises
\* (unusable file), conn.commit raises (locked, I/O error).
Faults == {"none", "connect", "commit"}
StoreError == Exc("OperationalError", "unable to open or write database file")

\* conn.rollback(): the store is what it was when the transaction began
KeepOnRollback(before, working) == working
Rollback(before, working) == before

\* finally: conn.close(), on every path out of the generator once the
\* connection exists
NoFinally(log) == log
Finally(log) == Append(log, "close")

\* with self.get_conn() as conn: cursor.execute(sql, values); lastrowid
\* execLine is the source line of the cursor.execute call, withLine that of
\* the with statement.
\* `use` is the record of this use of the connection: the calls made on it
\* in order (<< >> when sqlite3.connect raised), whether the with statement
\* raised, and the store before and after.
GetConn(db, fault, d, withLine, execLine) ==
    LET raise(e, frames, after, log) ==
            [raised |-> TRUE, err |-> e, tb |-> FormatExc(e, frames),
             db |-> after, id |-> 0,
             use |-> [log |-> log, raised |-> TRUE, before |-> db, after |-> after]]
        r == Execute(db, d)
    IN  IF fault = "connect"
        THEN raise(StoreError, <<withLine, 137, ConnectLine>>, db, << >>)
        ELSE IF ~r.ok
        THEN raise(r.err, <<execLine>>, Rollback(db, r.db),
                   Finally(<<"connect", "execute", "rollback">>))
        ELSE IF fault = "commit"
        THEN raise(StoreError, <<withLine, 144, CommitLine>>, Rollback(db, r.db),
                   Finally(<<"connect", "execute", "commit", "rollback">>))
        ELSE [raised |-> FALSE, err |-> Exc("", ""), tb |-> << >>,
              db |-> r.db, id |-> r.id,
              use |-> [log |-> Finally(<<"connect", "execute", "commit">>),
                       raised |-> FALSE, before |-> db, after |-> r.db]]

\* ------------------------------------------------------------ db.py: MyDB
\* Console output is a sequence of lines, each a tagged tuple.
\* print(prefix + text) for a multi-line text whose last line ends in "\n"
PrintText(prefix, text) ==
    <<<<prefix, text[1]>>>> \o Tail(text) \o <<<<"text", "">>>>

\* datetime.now().timestamp(): the wall clock is abstracted to one instant
Now == RealV(0)

\* f"Failed to insert log: {error_msg}"
FailedToInsert(error_msg) == <<"strf", "Failed to insert log: ", error_msg>>

EmergencyDict(error_msg, e) ==
    [project_name |-> StrV("my_logger"),
     project_version |-> StrV("unknown"),
     file_path |-> StrV("my_logger/db.py"),
     line |-> extract_line_number_from_message_traceback(error_msg, << >>),
     function |-> StrV("insert_into_db"),
     line_code |-> StrV(""),
     exception_type |-> StrV(e.type),
     exception_value |-> StrV(e.msg),
     message |-> FailedToInsert(error_msg),
     module |-> StrV("my_logger.db"),
     name |-> StrV("my_logger"),
     time |-> Now]

\* MyDB._emergency_log; fault is the store-level fault of its own get_conn
EmergencyLogPrintsFirst(db, error_msg, e, old_sql, old_db_dict, fault) ==
    LET db_dict == EmergencyDict(error_msg, e)
        r == GetConn(db, fault, db_dict, 87, 89)
        first == PrintText("Database error: ", error_msg)
    IN  IF ~r.raised
        THEN [db |-> r.db,
              out |-> first
                      \o <<<<"sql attempted: ", old_sql>>,
                           <<"data attempted: ", Dict(old_db_dict)>>,
                           <<"a log will be created to my_logger project">>>>,
              ret |-> IntV(r.id), emergency |-> "ok", uses |-> <<r.use>>]
        ELSE [db |-> r.db,
              out |-> first
                      \o <<<<"Critical failure: unable to log to database. ",
                             r.err.msg>>>>,
              ret |-> None, emergency |-> "raised", uses |-> <<r.use>>]
_emergency_log(db, error_msg, e, old_sql, old_db_dict, fault) ==
    LET db_dict == EmergencyDict(error_msg, e)
        r == GetConn(db, fault, db_dict, 87, 89)
    IN  IF ~r.raised
        THEN [db |-> r.db,
              out |-> PrintText("Database error: ", error_msg)
                      \o <<<<"sql attempted: ", old_sql>>,
                           <<"data attempted: ", Dict(old_db_dict)>>,
                           <<"a log will be created to my_logger project">>>>,
              ret |-> IntV(r.id), emergency |-> "ok", uses |-> <<r.use>>]
        ELSE [db |-> r.db,
              out |-> <<<<"Critical failure: unable to log to database. ",
                          r.err.msg>>>>,
              ret |-> None, emergency |-> "raised", uses |-> <<r.use>>]

\* MyDB.insert_into_db after its argument check: the primary insert and, when
\* it raises, the fallback; fault1 and fault2 are the store-level faults of
\* the primary and of the emergency transaction
PrimaryOnly(db, db_dict, fault1, fault2) ==
    LET r == GetConn(db, fault1, db_dict, 109, ExecuteLine)
    IN  [db |-> r.db, out |-> << >>,
         ret |-> IF r.raised THEN None ELSE IntV(r.id),
         primary |-> IF r.raised THEN "raised" ELSE "ok",
         emergency |-> "skipped", uses |-> <<r.use>>]
InsertBody(db, db_dict, fault1, fault2) ==
    LET sql == SqlOf(db_dict)
        r == GetConn(db, fault1, db_dict, 109, ExecuteLine)
    IN  IF ~r.raised
        THEN [db |-> r.db, out |-> << >>, ret |-> IntV(r.id),
              primary |-> "ok", emergency |-> "skipped", uses |-> <<r.use>>]
        ELSE LET em == _emergency_log(r.db, r.tb, r.err, sql, db_dict, fault2)
             IN  [db |-> em.db, out |-> em.out, ret |-> em.ret,
                  primary |-> "raised", emergency |-> em.emergency,
                  uses |-> <<r.use>> \o em.uses]

Invalid(db, arg) ==
    [db |-> db,
     out |-> <<<<"insert_into_db called with invalid db_dict: ", arg>>>>,
     ret |-> None, primary |-> "skipped", emergency |-> "skipped",
     uses |-> << >>]

\* MyDB.insert_into_db; arg is any Python value
InsertNoEmptyCheck(db, arg, fault1, fault2) ==
    IF arg[1] # "dict"
    THEN Invalid(db, arg)
    ELSE InsertBody(db, arg[2], fault1, fault2)
insert_into_db(db, arg, fault1, fault2) ==
    IF arg[1] # "dict" \/ DOMAIN arg[2] = {}
    THEN Invalid(db, arg)
    ELSE InsertBody(db, arg[2], fault1, fault2)

\* ---------------------------------------------------------- sample inputs
ValidDict ==
    [project_name |-> StrV("test_project"), project_version |-> StrV("1.0.0"),
     file_path |-> StrV("/test/path.py"), line |-> IntV(42),
     function |-> StrV("f"), line_code |-> StrV("x = 1 / 0"),
     exception_type |-> StrV("ZeroDivisionError"),
     exception_value |-> StrV("division by zero"),
     message |-> StrV("test message"), module |-> StrV("m"),
     name |-> StrV("m"), time |-> Now]

WithKey(d, k, v) == [c \in DOMAIN d \cup {k} |-> IF c = k THEN v ELSE d[c]]

\* an id a caller puts in the dict itself
ExplicitId == 3

InsertArgs ==
    {Dict(ValidDict),
     Dict(WithKey(ValidDict, "id", IntV(ExplicitId))),
     Dict([any |-> IntV(1)]),
     Dict([message |-> StrV("test1")]),
     Dict(WithKey(ValidDict, "elapsed", Obj)),
     Dict([k \in {} |-> None]),
     StrV("invalid data type")}

\* ------------------------------------------------------------- logger.py
\* A message template is a sequence of <<"lit", s>> and <<"field", name>>.
StdMsg ==
    <<<<"lit", "An exception occurred (id ">>, <<"field", "log_id">>,
      <<"lit", "). Don't worry, we are looking into it! For dev, type ">>,
      <<"field", "command_line">>, <<"lit", " to see more details.">>>>
PlainMsg == <<<<"lit", "Custom error occurred">>>>
BadMsg == <<<<"lit", "Error in ">>, <<"field", "file">>>>

\* one_time_message: None (use std_msg) or a template
OneTimeMessages == {None, <<"tpl", PlainMsg>>, <<"tpl", BadMsg>>}

\* print_msg.format(log_id=str(id), command_line=...): the pieces of the
\* result, each tagged with the field it came from; ok is FALSE when format
\* raises KeyError (a field that is neither log_id nor command_line)
Format(print_msg, id) ==
    [ok |-> \A i \in 1..Len(print_msg) :
               print_msg[i][1] = "field" => print_msg[i][2] \in {"log_id", "command_line"},
     text |-> [i \in 1..Len(print_msg) |->
                 IF print_msg[i][1] = "lit" THEN print_msg[i]
                 ELSE IF print_msg[i][2] = "log_id" THEN <<"log_id", PyStr(id)>>
                 ELSE <<"command_line", "\"my_logger -h\" for more info">>]]

\* An exception raised by instrumented code: its class name, its argument,
\* whether the class derives from Exception (KeyboardInterrupt and
\* SystemExit do not) and the line numbers of its traceback frames.
Raised(type, arg, isException, frames) ==
    [type |-> type, arg |-> arg, isException |-> isException, frames |-> frames]
\* str(e): KeyError shows the repr of its argument
PyExcStr(e) == IF e.type = "KeyError" THEN "'" \o e.arg \o "'" ELSE e.arg

\* line of the `return func(*args, **kwargs)` frame of sync_wrapper
WrapperLine == 144
\* what wrapped functions raise
Exceptions ==
    {Raised("ValueError", "x", TRUE, <<WrapperLine, 7>>),
     Raised("KeyboardInterrupt", "", FALSE, <<WrapperLine, 9>>)}
\* what application code handles when it calls log_exception itself
HandledExceptions == {Raised("KeyError", "k", TRUE, <<12, 30>>)}

\* What a wrapped function does: return a value, raise and handle its own
\* exception and then return a value, or raise.
Funcs ==
    {<<"returns", IntV(7)>>, <<"handles", IntV(1000000)>>}
    \cup {<<"raises", e>> : e \in Exceptions}

\* The record loguru hands to the sink for logger.exception(header_exc) with
\* the bound extra; enqueue pickles the record, which drops the traceback.
\* `text` is the formatted message: the header line, then the traceback.
Message(mid, e, print_msg, header_exc, enqueue) ==
    [mid |-> mid,
     exception |-> [type |-> e.type, value |-> PyExcStr(e),
                    traceback |-> IF enqueue THEN << >> ELSE e.frames],
     text |-> <<<<"text", header_exc>>>>
              \o FormatExc(Exc(e.type, PyExcStr(e)), e.frames),
     extra |-> [print_msg |-> print_msg,
                project_name |-> StrV("Unnamed_Project"),
                project_version |-> StrV("0.0.0")]]

\* MyDB.sqlite_sink up to the insert: the db_dict built from the record
SinkDict(message) ==
    [line |-> extract_line_number_from_message_traceback(
                  message.text, message.exception.traceback),
     exception_type |-> StrV(message.exception.type),
     exception_value |-> StrV(message.exception.value),
     file_path |-> StrV("my_logger/logger.py"),
     function |-> StrV("log_exception"),
     level_name |-> StrV("ERROR"), level_no |-> IntV(40),
     level_icon |-> StrV("x"),
     process_id |-> IntV(1), process_name |-> StrV("MainProcess"),
     thread_id |-> IntV(1), thread_name |-> StrV("MainThread"),
     elapsed |-> RealV(1), time |-> Now,
     module |-> StrV("logger"), name |-> StrV("my_logger.logger"),
     project_name |-> message.extra.project_name,
     project_version |-> message.extra.project_version,
     line_code |-> StrV(""),
     message |-> <<"strf", "", message.text>>]

\* ------------------------------------------------- db.py: MyDB.__init__
\* The file at db_path: <<"absent">> or <<"db", d>> (a database holding d).
\* conn.execute("CREATE TABLE logs ...") without IF NOT EXISTS: sqlite raises
\* OperationalError("table logs already exists") on a database that has it
CreateTable(file) ==
    IF file[1] = "absent"
    THEN [raised |-> FALSE, db |-> [logs |-> << >>, seq |-> 0]]
    ELSE [raised |-> TRUE, db |-> file[2]]
\* conn.execute("CREATE TABLE IF NOT EXISTS logs ...")
CreateTableIfNotExists(file) ==
    IF file[1] = "absent"
    THEN [raised |-> FALSE, db |-> [logs |-> << >>, seq |-> 0]]
    ELSE [raised |-> FALSE, db |-> file[2]]

\* MyDB(db_path): mkdir(exist_ok), then the DDL inside get_conn.  The DDL
\* opens no write transaction when the table exists, so commit writes nothing.
\* (sqlite opens an absent file as an empty database)
MyDBInit(file) ==
    LET r == CreateTableIfNotExists(file)
        before == IF file[1] = "absent" THEN r.db ELSE file[2]
    IN  [raised |-> r.raised, db |-> r.db,
         use |-> [log |-> Finally(IF r.raised
                                  THEN <<"connect", "execute", "rollback">>
                                  ELSE <<"connect", "execute", "commit">>),
                  raised |-> r.raised, before |-> before, after |-> r.db]]

\* ------------------------------------------------------------------ state
VARIABLES
    db,             \* the database file: [logs |-> rows, seq |-> sqlite_sequence]
    console,        \* the lines printed on stdout
    environ,        \* TRUE iff PYTEST_CURRENT_TEST is in os.environ
    my_logger,      \* the MyLogger instance: [enqueue, std_msg, built_under_pytest]
    decorator,      \* the arguments the wrapper was made with:
                    \* [re_raise, is_async, one_time_message]
    handlers,       \* loguru's handlers: id -> [kind, queue, cur]
    handlers_count, \* loguru's next handler id
    threads,        \* the application threads of this run
    call,           \* per thread: the call in progress or last finished
    nops,           \* operations started so far
    nflips,         \* changes of the environment so far
    last,           \* the last direct call of a MyDB method, of the line extraction
                    \* or of a CLI command: arguments, store before/after, output
    returned,       \* what the direct calls of the MyDB methods returned, in order
    trace           \* the events of the captures, in order

vars == <<db, console, environ, my_logger, decorator, handlers, handlers_count,
          threads, call, nops, nflips, last, returned, trace>>

ThreadIds == 1..MaxThreads
NoExc == Raised("", "", TRUE, << >>)
Idle == <<"idle">>
EmptyDb == [logs |-> << >>, seq |-> 0]

NoCall ==
    [pc |-> "idle", kind |-> "none", func |-> <<"none">>, exc |-> NoExc,
     print_msg |-> << >>, sink |-> -1, mid |-> 0, result |-> <<"none">>,
     env_at_call |-> FALSE, db0 |-> EmptyDb, console0 |-> << >>,
     handlers0 |-> << >>, db1 |-> EmptyDb, console1 |-> << >>,
     handlers1 |-> << >>]

NoLast ==
    [op |-> "none", arg |-> None, db0 |-> EmptyDb, db1 |-> EmptyDb,
     out |-> << >>, ret |-> None, primary |-> "skipped",
     emergency |-> "skipped", uses |-> << >>]

\* MyDB(db_path) on a fresh path creates an empty logs table; the loguru
\* logger starts with its default stderr handler, id 0.
Fresh ==
    /\ db = MyDBInit(<<"absent">>).db
    /\ console = << >>
    /\ handlers = (0 :> [kind |-> "stderr", queue |-> << >>, cur |-> Idle])
    /\ handlers_count = 1
    /\ threads = {1}
    /\ call = [t \in ThreadIds |-> NoCall]
    /\ nops = 0
    /\ nflips = 0
    /\ last = NoLast
    /\ returned = << >>
    /\ trace = << >>

\* MyLogger(db_path, enqueue=...) and
\* my_logger.log_exception_decorator(re_raise, one_time_message)(func)
Init ==
    /\ Fresh
    /\ environ \in BOOLEAN
    /\ \E enqueue \in BOOLEAN :
          my_logger = [enqueue |-> enqueue, std_msg |-> StdMsg,
                       built_under_pytest |-> environ]
    /\ \E re_raise, is_async \in BOOLEAN, otm \in OneTimeMessages :
          decorator = [re_raise |-> re_raise, is_async |-> is_async,
                       one_time_message |-> otm]

\* a MyDB used on its own, as the store tests do
InitDB ==
    /\ Fresh
    /\ environ = FALSE
    /\ my_logger = [enqueue |-> TRUE, std_msg |-> StdMsg,
                    built_under_pytest |-> FALSE]
    /\ decorator = [re_raise |-> FALSE, is_async |-> FALSE,
                    one_time_message |-> None]

\* ---------------------------------------------------------- environment
\* PYTEST_CURRENT_TEST appears in or disappears from os.environ
SetEnviron ==
    /\ nflips < MaxEnvFlips
    /\ environ' = ~environ
    /\ nflips' = nflips + 1
    /\ UNCHANGED <<db, console, my_logger, decorator, handlers, handlers_count,
                   threads, call, nops, last, returned, trace>>

\* ------------------------------------------------- direct MyDB calls
NamesId(arg) == arg[1] = "dict" /\ "id" \in DOMAIN arg[2]
NoteReturned(op, arg, ret) ==
    Append(returned, [op |-> op, ret |-> ret, names_id |-> NamesId(arg)])

InsertIntoDb(t, arg, fault1, fault2) ==
    /\ call[t].pc = "idle"
    /\ nops < MaxDbOps
    /\ LET r == insert_into_db(db, arg, fault1, fault2)
       IN  /\ db' = r.db
           /\ console' = console \o r.out
           /\ last' = [op |-> "insert_into_db", arg |-> arg, db0 |-> db,
                       db1 |-> r.db, out |-> r.out, ret |-> r.ret,
                       primary |-> r.primary, emergency |-> r.emergency,
                       uses |-> r.uses]
           /\ returned' = NoteReturned("insert_into_db", arg, r.ret)
    /\ nops' = nops + 1
    /\ UNCHANGED <<environ, my_logger, decorator, handlers, handlers_count,
                   threads, call, nflips, trace>>

\* error descriptions _emergency_log is called with directly
ErrorMsgs ==
    {<<<<"text", "{'any': 1}">>>>,
     FormatExc(Exc("Exception", "another error"), <<77>>)}

EmergencyLog(t, error_msg, fault) ==
    /\ call[t].pc = "idle"
    /\ nops < MaxDbOps
    /\ LET e == Exc("Exception", "another error")
           r == _emergency_log(db, error_msg, e, <<"old_sql">>, [k \in {} |-> None], fault)
       IN  /\ db' = r.db
           /\ console' = console \o r.out
           /\ last' = [op |-> "_emergency_log", arg |-> <<"text", error_msg>>,
                       db0 |-> db, db1 |-> r.db, out |-> r.out, ret |-> r.ret,
                       primary |-> "skipped", emergency |-> r.emergency,
                       uses |-> r.uses]
           /\ returned' = NoteReturned("_emergency_log", None, r.ret)
    /\ nops' = nops + 1
    /\ UNCHANGED <<environ, my_logger, decorator, handlers, handlers_count,
                   threads, call, nflips, trace>>

\* MyDB(db_path) once more, on the file the store already lives in
Construct(t) ==
    /\ call[t].pc = "idle"
    /\ nops < MaxDbOps
    /\ LET r == MyDBInit(<<"db", db>>)
       IN  /\ db' = r.db
           /\ last' = [op |-> "__init__", arg |-> None, db0 |-> db,
                       db1 |-> r.db, out |-> << >>, ret |-> None,
                       primary |-> IF r.raised THEN "raised" ELSE "ok",
                       emergency |-> "skipped", uses |-> <<r.use>>]
    /\ nops' = nops + 1
    /\ UNCHANGED <<console, environ, my_logger, decorator, handlers,
                   handlers_count, threads, call, nflips, returned, trace>>

\* ------------------------------------------------------------ the capture
\* _pytest_running(): reads os.environ when it is called
PytestRunningAtConstruction == my_logger.built_under_pytest
_pytest_running == environ

\* The try block of sync_wrapper / async_wrapper around func:
\* <<"return", v>> (func returned v), <<"except", e>> (func raised e and
\* `except Exception` caught it), <<"propagate", e>> (func raised e, not caught)
TryLogsHandled(func) ==
    IF func[1] = "returns" THEN <<"return", func[2]>>
    ELSE IF func[1] = "handles"
    THEN <<"except", Raised("ZeroDivisionError", "division by zero", TRUE,
                            <<WrapperLine, 5>>)>>
    ELSE IF func[2].isException THEN <<"except", func[2]>>
    ELSE <<"propagate", func[2]>>
TryCatchesNothing(func) ==
    IF func[1] \in {"returns", "handles"} THEN <<"return", func[2]>>
    ELSE <<"propagate", func[2]>>
Try(func) ==
    IF func[1] \in {"returns", "handles"} THEN <<"return", func[2]>>
    ELSE IF func[2].isException THEN <<"except", func[2]>>
    ELSE <<"propagate", func[2]>>

Finished(c, result) ==
    [c EXCEPT !.pc = "idle", !.result = result, !.db1 = db,
              !.console1 = console, !.handlers1 = handlers]

\* a call of the wrapper made by log_exception_decorator(...)(func), up to
\* its call of log_exception; func is what the wrapped function does this time
CallWrapper(t, func) ==
    /\ call[t].pc = "idle"
    /\ nops < MaxCalls
    /\ LET c == [NoCall EXCEPT !.kind = "wrapper", !.func = func,
                               !.mid = nops + 1, !.db0 = db,
                               !.console0 = console, !.handlers0 = handlers]
           r == Try(func)
       IN  call' = [call EXCEPT ![t] =
                IF r[1] = "return" THEN Finished(c, <<"returned", r[2]>>)
                ELSE IF r[1] = "propagate"
                     THEN Finished([c EXCEPT !.exc = r[2]], <<"raised", r[2]>>)
                ELSE [c EXCEPT !.pc = "log_exception", !.exc = r[2]]]
    /\ nops' = nops + 1
    /\ UNCHANGED <<db, console, environ, my_logger, decorator, handlers,
                   handlers_count, threads, nflips, last, returned, trace>>

\* my_logger.log_exception() called by application code from its own except
\* block while it handles e
CallLogException(t, e) ==
    /\ call[t].pc = "idle"
    /\ nops < MaxCalls
    /\ e.isException
    /\ call' = [call EXCEPT ![t] =
            [NoCall EXCEPT !.kind = "direct", !.pc = "log_exception",
                           !.exc = e, !.mid = nops + 1, !.db0 = db,
                           !.console0 = console, !.handlers0 = handlers]]
    /\ nops' = nops + 1
    /\ UNCHANGED <<db, console, environ, my_logger, decorator, handlers,
                   handlers_count, threads, nflips, last, returned, trace>>

HandlerIdle(h) == handlers[h].queue = << >> /\ handlers[h].cur = Idle

\* the one_time_message argument of this call of log_exception
OneTimeMessage(c) ==
    IF c.kind = "wrapper" THEN decorator.one_time_message ELSE None

\* log_exception: the pytest check, the choice of print_msg, logger.remove()
LogExceptionEnter(t) ==
    /\ call[t].pc = "log_exception"
    /\ IF _pytest_running
       THEN /\ call' = [call EXCEPT ![t].pc = "after_log",
                                    ![t].env_at_call = environ]
            /\ trace' = Append(trace, <<"skip", call[t].mid>>)
            /\ UNCHANGED handlers
       ELSE /\ \A h \in DOMAIN handlers : HandlerIdle(h)
            /\ handlers' = << >>
            /\ call' = [call EXCEPT ![t].pc = "add",
                          ![t].env_at_call = environ,
                          ![t].print_msg =
                              IF ~IsNone(OneTimeMessage(call[t]))
                              THEN OneTimeMessage(call[t])[2]
                              ELSE my_logger.std_msg]
            /\ trace' = Append(trace, <<"capture", call[t].mid>>)
    /\ UNCHANGED <<db, console, environ, my_logger, decorator, handlers_count,
                   threads, nops, nflips, last, returned>>

\* sink = logger.add(self.my_db.sqlite_sink, enqueue=self.enqueue)
LoggerAdd(t) ==
    /\ call[t].pc = "add"
    /\ handlers' = handlers @@
           (handlers_count :> [kind |-> "sqlite", queue |-> << >>, cur |-> Idle])
    /\ handlers_count' = handlers_count + 1
    /\ call' = [call EXCEPT ![t].pc = "emit", ![t].sink = handlers_count]
    /\ UNCHANGED <<db, console, environ, my_logger, decorator, threads, nops,
                   nflips, last, returned, trace>>

\* logger.bind(...).exception(header_exc): every handler gets the record; with
\* enqueue the call returns at once, without it the sinks run inside the call
LoggerException(t) ==
    /\ call[t].pc = "emit"
    /\ LET m == Message(call[t].mid, call[t].exc, call[t].print_msg, "",
                        my_logger.enqueue)
       IN  handlers' = [h \in DOMAIN handlers |->
              IF handlers[h].kind = "sqlite"
              THEN [handlers[h] EXCEPT !.queue = Append(@, m)]
              ELSE handlers[h]]
    /\ call' = [call EXCEPT ![t].pc =
                   IF my_logger.enqueue THEN "remove" ELSE "emit_wait"]
    /\ UNCHANGED <<db, console, environ, my_logger, decorator, handlers_count,
                   threads, nops, nflips, last, returned, trace>>

\* MyDB.sqlite_sink, first half: build db_dict and call insert_into_db.  It
\* runs in loguru's worker thread (enqueue) or inside logger.exception.
\* linecache.getline raises TypeError for a None line; loguru (catch=True)
\* reports what a sink raises on stderr and drops it.
SinkInsert(h, fault1, fault2) ==
    /\ h \in DOMAIN handlers
    /\ handlers[h].queue # << >>
    /\ handlers[h].cur = Idle
    /\ LET message == Head(handlers[h].queue)
           db_dict == SinkDict(message)
           r == insert_into_db(db, Dict(db_dict), fault1, fault2)
       IN  IF IsNone(db_dict.line)
           THEN /\ handlers' = [handlers EXCEPT ![h].queue = Tail(@)]
                /\ trace' = Append(trace, <<"sink_error", message.mid>>)
                /\ UNCHANGED <<db, console>>
           ELSE /\ db' = r.db
                /\ console' = console \o r.out
                /\ handlers' = [handlers EXCEPT ![h].cur = <<"inserted", r.ret>>]
                /\ trace' = Append(trace, <<"insert", message.mid, r.ret,
                                             r.primary, r.emergency>>)
    /\ UNCHANGED <<environ, my_logger, decorator, handlers_count, threads, call,
                   nops, nflips, last, returned>>

\* the id handed to print_msg.format: what insert_into_db returned
IdNotYetKnown(id) == None
SubstitutedId(id) == id

\* MyDB.sqlite_sink, second half: print(print_msg.format(log_id=str(id), ...))
SinkPrint(h) ==
    /\ h \in DOMAIN handlers
    /\ handlers[h].cur # Idle
    /\ LET message == Head(handlers[h].queue)
           f == Format(message.extra.print_msg, SubstitutedId(handlers[h].cur[2]))
       IN  IF f.ok
           THEN /\ console' = Append(console, <<"fmt", f.text>>)
                /\ trace' = Append(trace, <<"ack", message.mid, f.text>>)
           ELSE /\ console' = console
                /\ trace' = Append(trace, <<"sink_error", message.mid>>)
    /\ handlers' = [handlers EXCEPT ![h].queue = Tail(@), ![h].cur = Idle]
    /\ UNCHANGED <<db, environ, my_logger, decorator, handlers_count, threads,
                   call, nops, nflips, last, returned>>

Pending(mid) ==
    \E h \in DOMAIN handlers :
        \E i \in 1..Len(handlers[h].queue) : handlers[h].queue[i].mid = mid

\* without enqueue, logger.exception returns when the sinks have run
EmitReturn(t) ==
    /\ call[t].pc = "emit_wait"
    /\ ~Pending(call[t].mid)
    /\ call' = [call EXCEPT ![t].pc = "remove"]
    /\ UNCHANGED <<db, console, environ, my_logger, decorator, handlers,
                   handlers_count, threads, nops, nflips, last, returned, trace>>

\* Handler.stop() of an enqueue handler joins its worker: it returns when
\* the queue is drained
NoJoin(h) == TRUE
Joined(h) == HandlerIdle(h)

\* logger.remove(sink): ValueError when no handler has that id
LoggerRemove(t) ==
    /\ call[t].pc = "remove"
    /\ IF call[t].sink \notin DOMAIN handlers
       THEN /\ call' = [call EXCEPT ![t] = Finished(@,
                  <<"raised", Raised("ValueError", "There is no existing handler",
                                     TRUE, << >>)>>)]
            /\ trace' = Append(trace, <<"raised", call[t].mid>>)
            /\ UNCHANGED handlers
       ELSE /\ Joined(call[t].sink)
            /\ handlers' = [h \in DOMAIN handlers \ {call[t].sink} |-> handlers[h]]
            /\ call' = [call EXCEPT ![t].pc = "after_log"]
            /\ UNCHANGED trace
    /\ UNCHANGED <<db, console, environ, my_logger, decorator, handlers_count,
                   threads, nops, nflips, last, returned>>

\* after log_exception returns: `if re_raise: raise e`, else the wrapper
\* falls off its end and returns None
AlwaysRaise(c) == <<"raised", c.exc>>
AfterLog(c) ==
    IF c.kind = "wrapper" /\ decorator.re_raise THEN <<"raised", c.exc>>
    ELSE <<"returned", None>>

Return(t) ==
    /\ call[t].pc = "after_log"
    /\ call' = [call EXCEPT ![t] = Finished(@, AfterLog(@))]
    /\ trace' = Append(trace, <<AfterLog(call[t])[1], call[t].mid>>)
    /\ UNCHANGED <<db, console, environ, my_logger, decorator, handlers,
                   handlers_count, threads, nops, nflips, last, returned>>

\* ------------------------------------------------------------------ specs
\* the capture path: wrapper, log_exception, the sink, the environment
Next ==
    \/ SetEnviron
    \/ \E t \in threads, func \in Funcs : CallWrapper(t, func)
    \/ \E t \in threads, e \in HandledExceptions : CallLogException(t, e)
    \/ \E t \in threads : LogExceptionEnter(t)
    \/ \E t \in threads : LoggerAdd(t)
    \/ \E t \in threads : LoggerException(t)
    \/ \E h \in DOMAIN handlers, f1, f2 \in Faults : SinkInsert(h, f1, f2)
    \/ \E h \in DOMAIN handlers : SinkPrint(h)
    \/ \E t \in threads : EmitReturn(t)
    \/ \E t \in threads : LoggerRemove(t)
    \/ \E t \in threads : Return(t)

Spec == Init /\ [][Next]_vars

\* the capture path called from several application threads that share the
\* process-wide loguru logger (MyLogger built with the defaults but enqueue)
InitMT ==
    /\ db = MyDBInit(<<"absent">>).db
    /\ console = << >>
    /\ handlers = (0 :> [kind |-> "stderr", queue |-> << >>, cur |-> Idle])
    /\ handlers_count = 1
    /\ threads = ThreadIds
    /\ call = [t \in ThreadIds |-> NoCall]
    /\ nops = 0
    /\ nflips = 0
    /\ last = NoLast
    /\ returned = << >>
    /\ trace = << >>
    /\ environ = FALSE
    /\ \E enqueue \in BOOLEAN :
          my_logger = [enqueue |-> enqueue, std_msg |-> StdMsg,
                       built_under_pytest |-> FALSE]
    /\ decorator = [re_raise |-> FALSE, is_async |-> FALSE,
                    one_time_message |-> None]

\* concurrent calls of log_exception on a store that works
NextMT ==
    \/ \E t \in threads, e \in HandledExceptions : CallLogException(t, e)
    \/ \E t \in threads : LogExceptionEnter(t)
    \/ \E t \in threads : LoggerAdd(t)
    \/ \E t \in threads : LoggerException(t)
    \/ \E h \in DOMAIN handlers : SinkInsert(h, "none", "none")
    \/ \E h \in DOMAIN handlers : SinkPrint(h)
    \/ \E t \in threads : EmitReturn(t)
    \/ \E t \in threads : LoggerRemove(t)
    \/ \E t \in threads : Return(t)

SpecMT == InitMT /\ [][NextMT]_vars

\* the store on its own: direct calls of insert_into_db and _emergency_log
NextDB ==
    \/ \E t \in threads, arg \in InsertArgs, f1, f2 \in Faults :
           InsertIntoDb(t, arg, f1, f2)
    \/ \E t \in threads, m \in ErrorMsgs, f \in Faults : EmergencyLog(t, m, f)
    \/ \E t \in threads : Construct(t)

SpecDB == InitDB /\ [][NextDB]_vars

\* ------------------------------------------------------------- cli.py
\* CURRENT_TIMESTAMP: the wall clock is abstracted to one instant
CurrentTimestamp == StrV("CURRENT_TIMESTAMP")

\* update_commit: UPDATE logs SET bug_fix_commit = ?, bug_fix_info = ?,
\* bug_fix_date = CURRENT_TIMESTAMP WHERE id = ?; the connection's context
\* manager commits; then print(f"Log ID {id} updated!")
update_commit(d, id, commit_hash, bug_fix_info) ==
    [db |-> [d EXCEPT !.logs = [i \in 1..Len(d.logs) |->
                IF d.logs[i]["id"] = IntV(id)
                THEN [d.logs[i] EXCEPT
                        !["bug_fix_commit"] = commit_hash,
                        !["bug_fix_info"] = bug_fix_info,
                        !["bug_fix_date"] = CurrentTimestamp]
                ELSE d.logs[i]]],
     out |-> <<<<"Log ID updated!", id>>>>]

\* main, command resolve
MainResolve(d, id, commit, info) ==
    IF IsNone(commit) /\ IsNone(info)
    THEN [db |-> d,
          out |-> <<<<"Please provide at least --commit or --info to update the log entry.">>>>]
    ELSE update_commit(d, id, commit, info)

\* the columns export_logs selects: "SELECT id, exception_text FROM logs WHERE"
SelectedCols == {"id", "exception_text"}

\* the rows the WHERE clause of export_logs keeps; ids are the strings of
\* the command line, compared with the INTEGER column by value
RECURSIVE SelectWhere(_, _, _)
SelectWhere(logs, project_name, ids) ==
    IF logs = << >> THEN << >>
    ELSE LET r == Head(logs)
             keep == /\ IsNone(project_name) \/ r["project_name"] = project_name
                     /\ IsNone(ids) \/ \E i \in 1..Len(ids[2]) :
                                          ids[2][i] = PyStr(r["id"])
         IN  (IF keep THEN <<r>> ELSE << >>)
             \o SelectWhere(Tail(logs), project_name, ids)

\* export_logs(db_path, folder_path, project_name, ids): conn.execute raises
\* for a column the table does not have; sqlite3.Row has no attribute `id`,
\* so the file name of the first record raises before a file is opened.
\* files is the set of <<name, contents>> written into folder_path.
export_logs(d, project_name, ids) ==
    LET logs == SelectWhere(d.logs, project_name, ids)
        done(err, out) == [raised |-> err # "", err |-> err, out |-> out, files |-> {}]
    IN  IF SelectedCols \ Columns # {}
        THEN done("OperationalError: no such column: "
                  \o (CHOOSE c \in SelectedCols : c \notin Columns), << >>)
        ELSE IF logs = << >>
        THEN done("", <<<<"No logs found for the given criteria.">>>>)
        ELSE done("AttributeError: 'sqlite3.Row' object has no attribute 'id'", << >>)

\* main, command export
MainExport(d, project_name, ids) ==
    IF IsNone(project_name) /\ IsNone(ids)
    THEN [raised |-> FALSE, err |-> "", files |-> {},
          out |-> <<<<"Please provide either --project_name or --ids to export logs.">>>>]
    ELSE export_logs(d, project_name, ids)

OtherDict == WithKey(ValidDict, "project_name", StrV("other_project"))
CliRows == {Dict(ValidDict), Dict(OtherDict)}
CliIds == 1..2
CommitArgs == {None, StrV("abc123")}
InfoArgs == {None, StrV("fixed the divisor")}
ProjectArgs == {None, StrV("test_project"), StrV("no_such_project")}
IdsArgs == {None, <<"list", <<"1">>>>, <<"list", <<"1", "2">>>>}

\* my_logger resolve --id ID [--commit C] [--info I]
Resolve(id, commit, info) ==
    /\ nops < MaxCliOps
    /\ LET r == MainResolve(db, id, commit, info)
       IN  /\ db' = r.db
           /\ console' = console \o r.out
           /\ last' = [NoLast EXCEPT !.op = "resolve",
                         !.arg = <<"args", id, commit, info>>,
                         !.db0 = db, !.db1 = r.db, !.out = r.out]
    /\ nops' = nops + 1
    /\ UNCHANGED <<environ, my_logger, decorator, handlers, handlers_count,
                   threads, call, nflips, returned, trace>>

\* my_logger export [--project_name P] [--ids ID ...]
Export(project_name, ids) ==
    /\ nops < MaxCliOps
    /\ LET r == MainExport(db, project_name, ids)
       IN  /\ console' = console \o r.out
           /\ last' = [NoLast EXCEPT !.op = "export",
                         !.arg = <<"args", project_name, ids>>,
                         !.db0 = db, !.db1 = db, !.out = r.out,
                         !.ret = <<"files", r.files>>,
                         !.primary = IF r.raised THEN "raised" ELSE "ok"]
    /\ nops' = nops + 1
    /\ UNCHANGED <<db, environ, my_logger, decorator, handlers, handlers_count,
                   threads, call, nflips, returned, trace>>

\* the command line run against a store that an application writes to
NextCli ==
    \/ \E t \in threads, arg \in CliRows : InsertIntoDb(t, arg, "none", "none")
    \/ \E id \in CliIds, commit \in CommitArgs, info \in InfoArgs :
           Resolve(id, commit, info)
    \/ \E project_name \in ProjectArgs, ids \in IdsArgs : Export(project_name, ids)

SpecCli == InitDB /\ [][NextCli]_vars

\* the line extraction on its own: inputs drawn in Init, one call
RECURSIVE SeqsUpTo(_, _)
SeqsUpTo(S, n) ==
    IF n = 0 THEN {<< >>}
    ELSE LET shorter == SeqsUpTo(S, n - 1)
         IN  shorter \cup {Append(q, x) : q \in shorter, x \in S}

TextLines ==
    {<<"text", "ValueError: x">>, <<"file", 1>>, <<"file", 2>>,
     <<"files", <<1, 2>>>>, <<"files", <<2, 1>>>>}
FrameLines == {3, 4}
Messages == SeqsUpTo(TextLines, MaxLines)
Tracebacks == SeqsUpTo(FrameLines, MaxFrames)

InitUtils ==
    /\ Fresh
    /\ environ = FALSE
    /\ my_logger = [enqueue |-> TRUE, std_msg |-> StdMsg,
                    built_under_pytest |-> FALSE]
    /\ decorator = [re_raise |-> FALSE, is_async |-> FALSE,
                    one_time_message |-> None]

ExtractLine(message, traceback_obj) ==
    /\ nops = 0
    /\ nops' = 1
    /\ last' = [NoLast EXCEPT
                  !.op = "extract_line_number_from_message_traceback",
                  !.arg = <<"args", message, traceback_obj>>,
                  !.ret = extract_line_number_from_message_traceback(
                              message, traceback_obj)]
    /\ UNCHANGED <<db, console, environ, my_logger, decorator, handlers,
                   handlers_count, threads, call, nflips, returned, trace>>

NextUtils ==
    \E message \in Messages, traceback_obj \in Tracebacks :
        ExtractLine(message, traceback_obj)

SpecUtils == InitUtils /\ [][NextUtils]_vars

\* ------------------------------------------------------------ properties
IsPrefix(a, b) == Len(a) <= Len(b) /\ \A i \in 1..Len(a) : a[i] = b[i]
HasLine(out, line) == \E i \in 1..Len(out) : out[i] = line
OneMoreRow(r) == Len(r.db1.logs) = Len(r.db0.logs) + 1 /\ IsPrefix(r.db0.logs, r.db1.logs)
NewRow(r) == r.db1.logs[Len(r.db1.logs)]
CriticalOnly(out) ==
    Len(out) = 1 /\ out[1][1] = "Critical failure: unable to log to database. "
EmergencyReported(r) ==
    /\ ~IsNone(r.ret)
    /\ OneMoreRow(r)
    /\ NewRow(r)["id"] = r.ret
    /\ NewRow(r)["project_name"] = StrV("my_logger")
    /\ HasLine(r.out, <<"sql attempted: ", SqlOf(r.arg[2])>>)
    /\ HasLine(r.out, <<"data attempted: ", r.arg>>)
PrimaryRaised == last.op = "insert_into_db" /\ last.primary = "raised"

\* C1 as stated: whenever the primary insert raises for a non-empty dict,
\* insert_into_db returns the id of exactly one new row, the emergency record,
\* and the console shows the attempted SQL and data.
C1_AsStated == PrimaryRaised => EmergencyReported(last)

\* C1, amended: when the primary insert raises, insert_into_db makes the
\* fallback attempt and does not raise; if the emergency insert succeeds it
\* returns the id of exactly one new row, which is the emergency record
\* (project_name "my_logger"), no row with the attempted data is added and
\* the console shows the attempted SQL and data; if the emergency insert
\* fails too it returns None, adds no row and prints only the critical line.
C1_FallbackOutcome ==
    PrimaryRaised =>
        /\ last.emergency \in {"ok", "raised"}
        /\ last.emergency = "ok" => EmergencyReported(last)
        /\ last.emergency = "raised" =>
              IsNone(last.ret) /\ last.db1 = last.db0 /\ CriticalOnly(last.out)

C1_Witness ==
    /\ PrimaryRaised
    /\ last.emergency = "ok"
    /\ last.arg = Dict([any |-> IntV(1)])
    /\ last.ret = IntV(1)

\* C2: when the emergency insert itself fails, _emergency_log returns None,
\* prints exactly one line, which begins "Critical failure", and leaves the
\* rows of the store as they were.
C2_CriticalFailure ==
    last.emergency = "raised" =>
        IsNone(last.ret) /\ CriticalOnly(last.out) /\ last.db1 = last.db0

C2_Witness ==
    /\ last.op = "_emergency_log"
    /\ last.emergency = "raised"
    /\ Len(last.db0.logs) > 0

\* C3: insert_into_db with an empty dict or a value that is no dict returns
\* None, attempts neither the primary nor the emergency insert and leaves the
\* store unchanged.
C3_InvalidArgument ==
    (last.op = "insert_into_db"
     /\ (last.arg[1] # "dict" \/ DOMAIN last.arg[2] = {})) =>
        /\ IsNone(last.ret)
        /\ last.primary = "skipped"
        /\ last.emergency = "skipped"
        /\ last.db1 = last.db0

C3_Witness ==
    /\ last.op = "insert_into_db"
    /\ last.arg = Dict([k \in {} |-> None])
    /\ IsNone(last.ret)
    /\ Len(last.db0.logs) > 0

\* the ids the calls returned, without the None results
ReturnedIds == SelectSeq(returned, LAMBDA r : ~IsNone(r.ret))
\* every write to the store so far was a call of insert_into_db
OnlyInserts == \A j \in 1..Len(returned) : returned[j].op = "insert_into_db"
RowsWithId(id) == {i \in 1..Len(db.logs) : db.logs[i]["id"] = id}

\* C9 as stated: on a fresh store the k-th call that returns a non-null id
\* returns k.
C9_AsStated ==
    OnlyInserts => \A k \in 1..Len(ReturnedIds) : ReturnedIds[k].ret = IntV(k)

\* C9, amended: on a fresh store, over any sequence of insert_into_db calls
\* whose dicts do not name the id column, the k-th call that returns a
\* non-null id returns k, by the primary insert or by the fallback; a rolled
\* back primary attempt consumes no id; every id returned stays the id of
\* exactly one row.
C9_SequentialIds ==
    /\ (OnlyInserts /\ \A j \in 1..Len(returned) : ~returned[j].names_id) =>
           \A k \in 1..Len(ReturnedIds) : ReturnedIds[k].ret = IntV(k)
    /\ \A k \in 1..Len(ReturnedIds) :
           Cardinality(RowsWithId(ReturnedIds[k].ret)) = 1
    /\ \A j, k \in 1..Len(ReturnedIds) :
           j # k => ReturnedIds[j].ret # ReturnedIds[k].ret

\* a rolled-back primary attempt followed by a fallback row and a primary row
C9_Witness ==
    /\ Len(ReturnedIds) = 2
    /\ OnlyInserts
    /\ \A j \in 1..Len(returned) : ~returned[j].names_id
    /\ db.logs[1]["project_name"] = StrV("my_logger")
    /\ db.logs[1]["exception_value"] = StrV(StoreError.msg)
    /\ db.logs[2]["project_name"] = StrV("test_project")
    /\ ReturnedIds[2].ret = IntV(2)

\* ---------------------------------------------------- capture properties
Events(mid, tag) ==
    {i \in 1..Len(trace) : trace[i][1] = tag /\ trace[i][2] = mid}
Done(c) == c.kind # "none" /\ c.pc = "idle"
RaisesException(c) ==
    c.kind = "wrapper" /\ c.func[1] = "raises" /\ c.func[2].isException
RaisesOther(c) ==
    c.kind = "wrapper" /\ c.func[1] = "raises" /\ ~c.func[2].isException
HasField(print_msg, name) ==
    \E i \in 1..Len(print_msg) : print_msg[i] = <<"field", name>>
\* lines printed during the call c
Printed(c) == SubSeq(c.console1, Len(c.console0) + 1, Len(c.console1))
AckWithId(line, id) ==
    line[1] = "fmt" /\ \E p \in 1..Len(line[2]) : line[2][p] = <<"log_id", PyStr(id)>>

\* C4 as stated: an exception leaves a call only if it is the wrapped
\* function's own and re_raise is True; with re_raise False the wrapper
\* returns normally.
C4_AsStated ==
    \A t \in threads : Done(call[t]) =>
        /\ call[t].result[1] = "raised" =>
              /\ call[t].kind = "wrapper" /\ decorator.re_raise
              /\ call[t].func[1] = "raises"
              /\ call[t].result[2] = call[t].func[2]
        /\ (call[t].kind = "wrapper" /\ ~decorator.re_raise) =>
              call[t].result[1] = "returned"

\* C4, amended: in a single-threaded run no failure of the logging itself
\* leaves log_exception or a wrapper; an exception leaves a wrapper only if
\* it is the one the wrapped function raised, and only when re_raise is True
\* or the exception is no Exception subclass (KeyboardInterrupt, SystemExit:
\* the wrapper does not catch those); with re_raise False the wrapper returns
\* normally whenever the function returned or raised an Exception, also when
\* both inserts fail.
C4_OnlyOriginalEscapes ==
    \A t \in threads : Done(call[t]) =>
        /\ call[t].result[1] \in {"returned", "raised"}
        /\ call[t].result[1] = "raised" =>
              /\ call[t].kind = "wrapper"
              /\ call[t].func[1] = "raises"
              /\ call[t].result[2] = call[t].func[2]
              /\ decorator.re_raise \/ ~call[t].func[2].isException
        /\ (call[t].kind = "wrapper" /\ ~decorator.re_raise /\ ~RaisesOther(call[t])) =>
              call[t].result[1] = "returned"
        /\ call[t].kind = "direct" => call[t].result = <<"returned", None>>

\* re_raise False, and both the primary and the emergency insert failed
C4_Witness ==
    \E t \in threads :
        /\ Done(call[t]) /\ RaisesException(call[t]) /\ ~decorator.re_raise
        /\ call[t].result = <<"returned", None>>
        /\ \E i \in Events(call[t].mid, "insert") :
               trace[i][4] = "raised" /\ trace[i][5] = "raised"

\* a finished call of a wrapper with re_raise False whose function raised an
\* Exception outside a test harness, on a fresh store
C5_Case(c) ==
    /\ Done(c) /\ RaisesException(c) /\ ~decorator.re_raise
    /\ ~c.env_at_call
    /\ c.db0 = EmptyDb

\* C5 as stated: such a call adds exactly one row with the exception's type
\* and value, prints the acknowledgement with that row's id, returns None.
C5_AsStated ==
    \A t \in threads : C5_Case(call[t]) =>
        /\ Len(call[t].db1.logs) = 1
        /\ call[t].db1.logs[1]["exception_type"] = StrV(call[t].exc.type)
        /\ call[t].db1.logs[1]["exception_value"] = StrV(PyExcStr(call[t].exc))
        /\ \E i \in 1..Len(Printed(call[t])) :
               AckWithId(Printed(call[t])[i], call[t].db1.logs[1]["id"])
        /\ call[t].result = <<"returned", None>>

\* C5, amended: such a call swallows the exception and returns None after
\* exactly one call of insert_into_db; if the primary insert succeeds, the
\* fresh store holds exactly one row, with exception_type and
\* exception_value of the raised exception and the id that call returned; if
\* the message template formats and contains {log_id}, the acknowledgement
\* printed contains the id that call returned.
C5_CaptureSwallows ==
    \A t \in threads : C5_Case(call[t]) =>
        /\ call[t].result = <<"returned", None>>
        /\ Cardinality(Events(call[t].mid, "insert")) = 1
        /\ \A i \in Events(call[t].mid, "insert") :
              /\ trace[i][4] = "ok" =>
                    /\ Len(call[t].db1.logs) = 1
                    /\ call[t].db1.logs[1]["id"] = trace[i][3]
                    /\ call[t].db1.logs[1]["exception_type"] = StrV(call[t].exc.type)
                    /\ call[t].db1.logs[1]["exception_value"] = StrV(PyExcStr(call[t].exc))
              /\ (Format(call[t].print_msg, None).ok
                  /\ HasField(call[t].print_msg, "log_id")) =>
                    \E j \in 1..Len(Printed(call[t])) :
                        AckWithId(Printed(call[t])[j], trace[i][3])

\* the async wrapper, enqueue mode, the standard message, the row's id in it
C5_Witness ==
    \E t \in threads :
        /\ C5_Case(call[t])
        /\ decorator.is_async /\ my_logger.enqueue
        /\ Len(call[t].db1.logs) = 1
        /\ call[t].db1.logs[1]["exception_type"] = StrV("ValueError")
        /\ Printed(call[t]) = <<<<"fmt", Format(StdMsg, IntV(1)).text>>>>

\* a finished call of a wrapper with re_raise True whose function raised
C6_Case(c) == Done(c) /\ c.kind = "wrapper" /\ c.func[1] = "raises" /\ decorator.re_raise
RowWithId(logs, id) == \E r \in 1..Len(logs) : logs[r]["id"] = id

\* C6 as stated: with re_raise True the original exception propagates only
\* after its row is committed and the acknowledgement is printed.
C6_AsStated ==
    \A t \in threads : C6_Case(call[t]) =>
        \A k \in Events(call[t].mid, "raised") :
            /\ \E i \in Events(call[t].mid, "insert") :
                   i < k /\ ~IsNone(trace[i][3])
                   /\ RowWithId(call[t].db1.logs, trace[i][3])
            /\ \E j \in Events(call[t].mid, "ack") : j < k

\* C6, amended: with re_raise True the wrapper raises the original exception,
\* and when the capture runs (an Exception, no test-harness marker) it does so
\* only after insert_into_db has returned and the sink has finished: the row,
\* when an insert succeeded, is committed, and the acknowledgement, when the
\* template formats, is printed before the exception propagates, and nothing
\* is written or printed for the capture afterwards; this holds with enqueue
\* too, where the write runs on loguru's worker.  (Under a test harness, for
\* an exception that is no Exception, when both inserts fail or the template
\* does not format, the exception propagates without the row or the line.)
C6_RaiseAfterWrite ==
    \A t \in threads : C6_Case(call[t]) =>
        /\ call[t].result = <<"raised", call[t].func[2]>>
        /\ \A k \in Events(call[t].mid, "raised") :
              /\ \A i \in Events(call[t].mid, "insert") \cup Events(call[t].mid, "ack") :
                     i < k
              /\ (call[t].func[2].isException /\ ~call[t].env_at_call) =>
                     \E i \in Events(call[t].mid, "insert") :
                        /\ i < k
                        /\ ~IsNone(trace[i][3]) =>
                               RowWithId(call[t].db1.logs, trace[i][3])
                        /\ Format(call[t].print_msg, None).ok =>
                               \E j \in Events(call[t].mid, "ack") :
                                  /\ i < j /\ j < k
                                  /\ HasLine(Printed(call[t]), <<"fmt", trace[j][3]>>)

\* enqueue mode: row committed and acknowledgement printed, then the raise
C6_Witness ==
    \E t \in threads :
        /\ C6_Case(call[t]) /\ my_logger.enqueue
        /\ call[t].result = <<"raised", call[t].func[2]>>
        /\ \E i \in Events(call[t].mid, "insert"), j \in Events(call[t].mid, "ack"),
              k \in Events(call[t].mid, "raised") :
               i < j /\ j < k /\ trace[i][4] = "ok"
               /\ RowWithId(call[t].db1.logs, trace[i][3])

\* C7: when no exception crosses the wrapper (the function returns, possibly
\* after handling its own exception), the wrapper returns the function's
\* result, adds no row, prints nothing and leaves loguru's handlers alone.
C7_PassThrough ==
    \A t \in threads :
        (Done(call[t]) /\ call[t].kind = "wrapper"
         /\ call[t].func[1] \in {"returns", "handles"}) =>
            /\ call[t].result = <<"returned", call[t].func[2]>>
            /\ call[t].db1 = call[t].db0
            /\ call[t].console1 = call[t].console0
            /\ call[t].handlers1 = call[t].handlers0
            /\ Events(call[t].mid, "capture") = {}
            /\ Events(call[t].mid, "insert") = {}

\* the function handled its own exception; no test-harness marker is set
C7_Witness ==
    \E t \in threads :
        /\ Done(call[t]) /\ call[t].func = <<"handles", IntV(1000000)>>
        /\ call[t].result = <<"returned", IntV(1000000)>>
        /\ ~environ /\ ~my_logger.built_under_pytest
        /\ Len(call[t].db0.logs) > 0

\* log_exception has made its test-harness check for call c
Checked(c) ==
    c.kind # "none"
    /\ (Events(c.mid, "skip") # {} \/ Events(c.mid, "capture") # {})

\* C8: a capture is skipped iff the marker is in the environment when
\* log_exception is called, whatever it was when the MyLogger was built: with
\* the marker the call writes no row and prints nothing, without it the
\* capture proceeds to the insert.
C8_MarkerAtCallTime ==
    \A t \in threads : Checked(call[t]) =>
        /\ call[t].env_at_call <=> Events(call[t].mid, "skip") # {}
        /\ ~call[t].env_at_call <=> Events(call[t].mid, "capture") # {}
        /\ (Done(call[t]) /\ call[t].env_at_call) =>
              /\ call[t].db1 = call[t].db0
              /\ call[t].console1 = call[t].console0
              /\ Events(call[t].mid, "insert") = {}
        /\ (Done(call[t]) /\ ~call[t].env_at_call) =>
              Events(call[t].mid, "insert") # {}

\* built outside a test run, called inside one
C8_Witness ==
    \E t \in threads :
        /\ Done(call[t]) /\ Checked(call[t])
        /\ call[t].env_at_call /\ ~my_logger.built_under_pytest

\* built inside a test run, called outside one
C8_WitnessProceeds ==
    \E t \in threads :
        /\ Done(call[t]) /\ Checked(call[t])
        /\ ~call[t].env_at_call /\ my_logger.built_under_pytest
        /\ Len(call[t].db1.logs) > Len(call[t].db0.logs)

Mids == 1..nops

MaxId(d) == IF d.logs = << >> THEN 0
            ELSE CHOOSE m \in Ids(d.logs) : \A i \in Ids(d.logs) : i <= m

\* C11: constructing MyDB again on the existing database file does not raise
\* and leaves every row (ids and fields) and the row count as they were; the
\* id sequence continues after the highest id already assigned, i.e. the
\* next store-assigned id is that id plus one, constructions in between or not.
C11_ConstructIdempotent ==
    /\ last.op = "__init__" =>
          /\ last.primary = "ok"
          /\ last.db1 = last.db0
          /\ db = last.db0
    /\ db.seq = MaxId(db)
    /\ (last.op = "insert_into_db" /\ last.primary = "ok"
        /\ ~NamesId(last.arg)) =>
           last.ret = IntV(MaxId(last.db0) + 1)

\* a store holding a primary row and an emergency row is constructed again
C11_Witness ==
    /\ last.op = "__init__" /\ last.primary = "ok"
    /\ Len(last.db0.logs) = 2 /\ db = last.db0
    /\ db.logs[1]["project_name"] = StrV("test_project")
    /\ db.logs[2]["project_name"] = StrV("my_logger")

\* a finished log_exception call that was not skipped and whose record no
\* sink still holds
Settled(c) ==
    Done(c) /\ Events(c.mid, "capture") # {} /\ ~Pending(c.mid)

\* C12 as stated: for every interleaving of concurrent log_exception calls,
\* each captured exception is recorded exactly once: its record is written by
\* one sink, not by two (duplicate rows) and not by none (lost).
C12_AsStated ==
    \A t \in threads :
        Settled(call[t]) => Cardinality(Events(call[t].mid, "insert")) = 1

\* a capture whose record two sinks wrote: two rows for one exception
C12_Duplicate ==
    \E t \in threads :
        /\ Settled(call[t])
        /\ Cardinality(Events(call[t].mid, "insert")) = 2
        /\ Len(db.logs) >= 2

\* C13 as stated: for every interleaving of concurrent log_exception calls,
\* none of them raises; the removal of a call's own sink never fails.
C13_AsStated ==
    \A t \in threads :
        (Done(call[t]) /\ call[t].kind = "direct") => call[t].result[1] # "raised"

\* every `File "...", line N, in ...` occurrence of a message, in order
RECURSIVE Occurrences(_)
Occurrences(message) ==
    IF message = << >> THEN << >>
    ELSE (IF Head(message)[1] = "file" THEN <<Head(message)[2]>>
          ELSE IF Head(message)[1] = "files" THEN Head(message)[2]
          ELSE << >>) \o Occurrences(Tail(message))

Extracted == last.op = "extract_line_number_from_message_traceback"

\* C14 as stated: the line of the deepest frame when the traceback has
\* frames, whatever the message; else N of the last occurrence in the
\* message; else None.
C14_AsStated ==
    Extracted =>
        LET message == last.arg[2]
            stack == last.arg[3]
            occ == Occurrences(message)
        IN  last.ret = IF stack # << >> THEN IntV(stack[Len(stack)])
                       ELSE IF occ # << >> THEN IntV(occ[Len(occ)])
                       ELSE None

\* frames take precedence over a message that names other lines
C14_FramesFirst ==
    /\ Extracted
    /\ last.arg[3] = <<3, 4>> /\ last.arg[2] = <<<<"file", 1>>, <<"file", 2>>>>
    /\ last.ret = IntV(4)

\* the annotation command ran update_commit (one of commit, info was given)
Annotated ==
    last.op = "resolve" /\ ~(IsNone(last.arg[3]) /\ IsNone(last.arg[4]))
AnnotationCols == {"bug_fix_commit", "bug_fix_info", "bug_fix_date"}

\* C15 as stated: an annotation of an existing id with a commit and no info
\* sets bug_fix_commit and bug_fix_date and leaves bug_fix_info as it was,
\* and symmetrically for info without commit; no other row and no other
\* field changes; an id that matches no row changes nothing.
C15_AsStated ==
    Annotated =>
        LET id == IntV(last.arg[2])
            commit == last.arg[3]
            info == last.arg[4]
        IN  /\ Len(last.db1.logs) = Len(last.db0.logs)
            /\ last.db1.seq = last.db0.seq
            /\ \A i \in 1..Len(last.db0.logs) :
                  LET before == last.db0.logs[i]
                      after == last.db1.logs[i]
                  IN  /\ \A c \in Columns \ AnnotationCols : after[c] = before[c]
                      /\ before["id"] # id => after = before
                      /\ before["id"] = id =>
                            /\ after["bug_fix_date"] = CurrentTimestamp
                            /\ after["bug_fix_commit"] =
                                  IF IsNone(commit) THEN before["bug_fix_commit"]
                                  ELSE commit
                            /\ after["bug_fix_info"] =
                                  IF IsNone(info) THEN before["bug_fix_info"]
                                  ELSE info

\* an info set by an earlier annotation is gone after a commit-only one
C15_InfoCleared ==
    /\ Annotated
    /\ IsNone(last.arg[4])
    /\ \E i \in 1..Len(last.db0.logs) :
          /\ last.db0.logs[i]["id"] = IntV(last.arg[2])
          /\ last.db0.logs[i]["bug_fix_info"] = StrV("fixed the divisor")
          /\ last.db1.logs[i]["bug_fix_info"] = None
          /\ last.db1.logs[i]["bug_fix_commit"] = StrV("abc123")

\* export_logs was called (a filter was given)
Exported ==
    last.op = "export" /\ ~(IsNone(last.arg[2]) /\ IsNone(last.arg[3]))
\* the file the claim expects for record r: named by its id, every field in it
FileOf(r) == <<PyStr(r["id"]) \o ".log", {<<c, r[c]>> : c \in Columns}>>

\* C16 as stated: export_logs exports exactly the records that satisfy the
\* filters, one file per record named by its id and holding every field, and
\* prints "Exported <n> logs to <folder>"; when nothing matches it writes no
\* file, prints a notice and raises nothing.
C16_AsStated ==
    Exported =>
        LET matched == SelectWhere(last.db0.logs, last.arg[2], last.arg[3])
        IN  /\ last.primary # "raised"
            /\ last.ret = <<"files", {FileOf(matched[i]) : i \in 1..Len(matched)}>>
            /\ last.out =
                  IF matched = << >>
                  THEN <<<<"No logs found for the given criteria.">>>>
                  ELSE <<<<"Exported logs to folder", Len(matched)>>>>
            /\ last.db1 = last.db0

\* the export raises although two records match, and writes nothing
C16_RaisesOnMatch ==
    /\ Exported
    /\ Len(SelectWhere(last.db0.logs, last.arg[2], last.arg[3])) = 2
    /\ last.primary = "raised"
    /\ last.ret = <<"files", {}>>
    /\ last.out = << >>

\* the last operation was a method of MyDB
StoreOp == last.op \in {"insert_into_db", "_emergency_log", "__init__"}
In(log, x) == \E i \in 1..Len(log) : log[i] = x
Complete(row) == \A c \in RequiredCols \cup {"id"} : ~IsNone(row[c])
\* store b is store a, or a with one complete row more
SameOrOneRowMore(a, b) ==
    \/ b = a
    \/ /\ Len(b.logs) = Len(a.logs) + 1
       /\ SubSeq(b.logs, 1, Len(a.logs)) = a.logs
       /\ Complete(b.logs[Len(b.logs)])

\* C17: every use of get_conn is one transaction with guaranteed release: the
\* body's changes are committed when the body completes, rolled back (and
\* the exception re-raised) when the body or the commit raises, and the
\* connection is closed last on both paths; after a store operation no
\* connection is open and the store holds no partially written row.
C17_ScopedTransaction ==
    /\ \A i \in 1..Len(db.logs) : Complete(db.logs[i])
    /\ StoreOp =>
        /\ \A i \in 1..Len(last.uses) :
             LET u == last.uses[i]
                 n == Len(u.log)
             IN  /\ u.log = << >> => u.raised /\ u.after = u.before
                 /\ u.log # << >> =>
                       /\ u.log[1] = "connect"
                       /\ u.log[n] = "close"
                       /\ \A k \in 2..(n - 1) : u.log[k] \notin {"close", "connect"}
                       /\ u.raised <=> u.log[n - 1] = "rollback"
                       /\ ~u.raised <=> u.log[n - 1] = "commit"
                 /\ u.raised => u.after = u.before
                 /\ SameOrOneRowMore(u.before, u.after)
                 /\ i = 1 => u.before = last.db0
                 /\ i > 1 => u.before = last.uses[i - 1].after /\ last.uses[i - 1].raised
                 /\ i = Len(last.uses) => u.after = last.db1
        /\ last.uses = << >> => last.db1 = last.db0

\* an insert whose primary transaction fails at commit and is rolled back and
\* closed, and whose fallback transaction commits and is closed
C17_Witness ==
    /\ last.op = "insert_into_db"
    /\ Len(last.uses) = 2
    /\ last.uses[1].log = <<"connect", "execute", "commit", "rollback", "close">>
    /\ last.uses[2].log = <<"connect", "execute", "commit", "close">>
    /\ Len(last.db1.logs) = Len(last.db0.logs) + 1
    /\ Len(last.db0.logs) > 0

\* the last operation made a fallback attempt; its transaction is the last use
FallbackAttempted ==
    \/ last.op = "_emergency_log"
    \/ last.op = "insert_into_db" /\ last.primary = "raised"
FallbackUse == last.uses[Len(last.uses)]
\* a transaction that failed at a store level: no connection, or at commit
StoreLevelFailure(u) == u.log = << >> \/ In(u.log, "commit")

\* C18 as stated: the record _emergency_log builds is schema-safe for every
\* error description: only columns of logs, a non-null value for every NOT
\* NULL column (line included), so the fallback insert fails only for
\* store-level reasons; and an insert_into_db call makes at most one
\* fallback attempt.
C18_AsStated ==
    /\ last.op = "_emergency_log" =>
          LET d == EmergencyDict(last.arg[2], Exc("Exception", "another error"))
          IN  /\ DOMAIN d \subseteq Columns
              /\ \A c \in RequiredCols : c \in DOMAIN d /\ ~IsNone(d[c])
    /\ FallbackAttempted =>
          /\ last.emergency = "raised" => StoreLevelFailure(FallbackUse)
          /\ Len(last.uses) <= 2
    /\ last.op = "insert_into_db" /\ last.primary # "raised" =>
          last.emergency = "skipped"

\* a fallback insert on a working store rejected for its own contents: the
\* error description names no line, so the NOT NULL column line is null
C18_LineMissing ==
    /\ last.op = "_emergency_log"
    /\ last.emergency = "raised"
    /\ IsNone(EmergencyDict(last.arg[2], Exc("Exception", "another error"))["line"])
    /\ FallbackUse.log = <<"connect", "execute", "rollback", "close">>
    /\ last.out = <<<<"Critical failure: unable to log to database. ",
                      "NOT NULL constraint failed: logs.line">>>>

====
